---- MODULE Spec2Model ----
(***************************************************************************)
(* Model of src/drawing/conics.rs: the Bresenham circle rasterizer, the    *)
(* midpoint ellipse rasterizer, the equal-radii dispatch and the           *)
(* non-mutating wrappers.  One behaviour of the model is one draw call:    *)
(* Init draws the arguments, the actions are the steps of the call.        *)
(***************************************************************************)
EXTENDS Integers, Sequences, FiniteSets, TLC

VARIABLES
    op,             \* the entry point called
    build,          \* "debug": i32 overflow panics; "release": it wraps
    image,          \* the caller's canvas (the `image` argument)
    out,            \* the wrapper's local canvas `out`
    center,         \* <<x0, y0>>
    width_radius,
    height_radius,
    color,
    pc,             \* position in the call
    x, y, err,      \* locals of the circle loops; x, y also of draw_ellipse
    px, py,         \* locals of draw_ellipse
    p4,             \* 4 * p, p being the f32 decision parameter of draw_ellipse
    overflowed,     \* ghost: an i32 operation left the i32 range
    trail           \* ghost: the <<x, y>> rendered so far, in order

vars == <<op, build, image, out, center, width_radius, height_radius, color,
          pc, x, y, err, px, py, p4, overflowed, trail>>

----------------------------------------------------------------------------
(* Bounds of the model *)

MaxRadius == 4

\* Side of the canvas that holds every shape centred at Mid, and one row more.
Big == 2 * MaxRadius + 3
Mid == MaxRadius + 1

----------------------------------------------------------------------------
(* i32 arithmetic *)

I32Max == 2147483647
I32Min == -I32Max - 1

AddOverflows(a, b) ==
    \/ b > 0 /\ a > I32Max - b
    \/ b < 0 /\ a < I32Min - b

\* a + b modulo 2^32, as a two's complement i32
WrapAdd(a, b) ==
    IF b > 0 /\ a > I32Max - b THEN (a - I32Max - 1) + (b - I32Max - 1)
    ELSE IF b < 0 /\ a < I32Min - b THEN (a + I32Max + 1) + (b + I32Max + 1)
    ELSE a + b

SubOverflows(a, b) ==
    \/ b > 0 /\ a < I32Min + b
    \/ b < 0 /\ a > I32Max + b

\* a - b modulo 2^32, as a two's complement i32
WrapSub(a, b) ==
    IF b > 0 /\ a < I32Min + b THEN (a + I32Max + 1) + (I32Max - b + 1)
    ELSE IF b < 0 /\ a > I32Max + b THEN (a - I32Max - 1) - (b + I32Max + 1)
    ELSE a - b

\* The expressions x0 + d (sign = 1) and x0 - d (sign = -1) of the render code.
CoordOverflows(base, sign, d) ==
    IF sign = 1 THEN AddOverflows(base, d) ELSE SubOverflows(base, d)

Coord(base, sign, d) ==
    IF sign = 1 THEN WrapAdd(base, d) ELSE WrapSub(base, d)

----------------------------------------------------------------------------
(* `v as f32`: an f32 is [m, e], the value m * 2^e with |m| <= 2^24 *)

Pow2(n) == IF n = 0 THEN 1 ELSE IF n = 1 THEN 2 ELSE IF n = 2 THEN 4
           ELSE IF n = 3 THEN 8 ELSE IF n = 4 THEN 16 ELSE IF n = 5 THEN 32
           ELSE IF n = 6 THEN 64 ELSE IF n = 7 THEN 128 ELSE 256

F32Mantissa == 16777216

Abs(v) == IF v < 0 THEN -v ELSE v

\* Round to nearest, ties to even, at the 24-bit mantissa of an f32.
AsF32(v) ==
    IF v = I32Min THEN [m |-> -(F32Mantissa \div 2), e |-> 8]
    ELSE LET a == Abs(v)
             e == CHOOSE k \in 0..7 :
                     /\ a \div Pow2(k) < F32Mantissa
                     /\ \A j \in 0..7 : a \div Pow2(j) < F32Mantissa => k <= j
             q == a \div Pow2(e)
             r == a % Pow2(e)
             up == 2 * r > Pow2(e) \/ (2 * r = Pow2(e) /\ q % 2 = 1)
             m == IF up THEN q + 1 ELSE q
         IN  [m |-> IF v < 0 THEN -m ELSE m, e |-> e]

\* f <= n and f >= n for an f32 f and an integer n
FLeInt(f, n) == f.m <= n \div Pow2(f.e)
FGeInt(f, n) == f.m >= -((-n) \div Pow2(f.e))

----------------------------------------------------------------------------
(* Canvases *)

Pixels(w, h) == (0..(w - 1)) \X (0..(h - 1))

\* ImageBuffer::new(width, height): every pixel zero
NewImage(w, h) ==
    [width |-> w, height |-> h, pix |-> [q \in Pixels(w, h) |-> 0]]

\* out.copy_from(image, 0, 0) for an `out` of the dimensions of `image`
CopyFrom(dst, src) ==
    [dst EXCEPT !.pix = [q \in DOMAIN dst.pix |->
                            IF q \in DOMAIN src.pix THEN src.pix[q] ELSE @[q]]]

InBounds(img, cx, cy) ==
    cx >= 0 /\ cx < img.width /\ cy >= 0 /\ cy < img.height

\* put_pixel without a bounds check
PutPixel(img, cx, cy, c) ==
    [img EXCEPT !.pix = (<<cx, cy>> :> c) @@ @]

draw_if_in_bounds(img, cx, cy, c) ==
    IF InBounds(img, cx, cy) THEN PutPixel(img, cx, cy, c) ELSE img

\* A horizontal segment from a to b (pairs of f32), both ends included, clipped.
draw_line_segment_mut(img, a, b, c) ==
    [img EXCEPT !.pix = [q \in DOMAIN @ |->
        IF /\ FLeInt(a[2], q[2]) /\ FGeInt(a[2], q[2])
           /\ \/ FLeInt(a[1], q[1]) /\ FGeInt(b[1], q[1])
              \/ FLeInt(b[1], q[1]) /\ FGeInt(a[1], q[1])
        THEN c ELSE @[q]]]

----------------------------------------------------------------------------
(* Rendering.  A draw context dc is [img, ovf, panic]: the canvas drawn on,  *)
(* whether an i32 operation overflowed, and whether the call panicked.       *)

\* draw_if_in_bounds(image, x0 + sx*dx, y0 + sy*dy, color)
Plot(dc, sx, dx, sy, dy) ==
    IF dc.panic THEN dc
    ELSE LET o == \/ CoordOverflows(center[1], sx, dx)
                  \/ CoordOverflows(center[2], sy, dy)
         IN  IF o /\ build = "debug"
             THEN [dc EXCEPT !.ovf = TRUE, !.panic = TRUE]
             ELSE [img   |-> draw_if_in_bounds(dc.img, Coord(center[1], sx, dx),
                                               Coord(center[2], sy, dy), color),
                   ovf   |-> dc.ovf \/ o,
                   panic |-> FALSE]

\* draw_line_segment_mut(image, ((x0 - half) as f32, (y0 + sy*dy) as f32),
\*                              ((x0 + half) as f32, (y0 + sy*dy) as f32), color)
Span(dc, half, sy, dy) ==
    IF dc.panic THEN dc
    ELSE LET o == \/ SubOverflows(center[1], half)
                  \/ CoordOverflows(center[2], sy, dy)
                  \/ AddOverflows(center[1], half)
             row == AsF32(Coord(center[2], sy, dy))
         IN  IF o /\ build = "debug"
             THEN [dc EXCEPT !.ovf = TRUE, !.panic = TRUE]
             ELSE [img   |-> draw_line_segment_mut(dc.img,
                                 <<AsF32(WrapSub(center[1], half)), row>>,
                                 <<AsF32(WrapAdd(center[1], half)), row>>, color),
                   ovf   |-> dc.ovf \/ o,
                   panic |-> FALSE]

\* draw_quad_pixels with its second point plotted at x0 + x again
draw_quad_pixels_SignSlip(dc, ex, ey) ==
    LET d1 == Plot(dc, 1, ex, 1, ey)
        d2 == Plot(d1, 1, ex, 1, ey)
        d3 == Plot(d2, 1, ex, -1, ey)
    IN  Plot(d3, -1, ex, -1, ey)

\* The closure draw_quad_pixels of draw_hollow_ellipse_mut
draw_quad_pixels(dc, ex, ey) ==
    LET d1 == Plot(dc, 1, ex, 1, ey)
        d2 == Plot(d1, -1, ex, 1, ey)
        d3 == Plot(d2, 1, ex, -1, ey)
    IN  Plot(d3, -1, ex, -1, ey)

\* The closure draw_line_pairs of draw_filled_ellipse_mut
draw_line_pairs(dc, ex, ey) ==
    Span(Span(dc, ex, 1, ey), ex, -1, ey)

\* HollowCircleBody with its third point plotted at x0 + y again
HollowCircleBody_SignSlip(dc, cx, cy) ==
    LET d1 == Plot(dc, 1, cx, 1, cy)
        d2 == Plot(d1, 1, cy, 1, cx)
        d3 == Plot(d2, 1, cy, 1, cx)
        d4 == Plot(d3, -1, cx, 1, cy)
        d5 == Plot(d4, -1, cx, -1, cy)
        d6 == Plot(d5, -1, cy, -1, cx)
        d7 == Plot(d6, 1, cy, -1, cx)
    IN  Plot(d7, 1, cx, -1, cy)

\* The eight draw_if_in_bounds calls of one iteration of draw_hollow_circle_mut
HollowCircleBody(dc, cx, cy) ==
    LET d1 == Plot(dc, 1, cx, 1, cy)
        d2 == Plot(d1, 1, cy, 1, cx)
        d3 == Plot(d2, -1, cy, 1, cx)
        d4 == Plot(d3, -1, cx, 1, cy)
        d5 == Plot(d4, -1, cx, -1, cy)
        d6 == Plot(d5, -1, cy, -1, cx)
        d7 == Plot(d6, 1, cy, -1, cx)
    IN  Plot(d7, 1, cx, -1, cy)

\* FilledCircleBody without its span on row y0 + x
FilledCircleBody_NoLowerCap(dc, cx, cy) ==
    LET d1 == Span(dc, cx, 1, cy)
        d3 == Span(d1, cx, -1, cy)
    IN  Span(d3, cy, -1, cx)

\* The four draw_line_segment_mut calls of one iteration of draw_filled_circle_mut
FilledCircleBody(dc, cx, cy) ==
    LET d1 == Span(dc, cx, 1, cy)
        d2 == Span(d1, cy, 1, cx)
        d3 == Span(d2, cx, -1, cy)
    IN  Span(d3, cy, -1, cx)

----------------------------------------------------------------------------
(* The steppers.  With radii up to MaxRadius their integer arithmetic stays *)
(* far inside i32, and every value of p is a multiple of 1/4 below 2^22,     *)
(* which f32 holds exactly: p4 = 4 * p is an integer.                        *)

\* y += 1; err += 1 + 2 * y; if 2 * (err - x) + 1 > 0 { x -= 1; err += 1 - 2 * x; }
CircleNext(s) ==
    LET y1 == s.y + 1
        e1 == s.err + 1 + 2 * y1
    IN  IF 2 * (e1 - s.x) + 1 > 0
        THEN [x |-> s.x - 1, y |-> y1, err |-> e1 + 1 - 2 * (s.x - 1)]
        ELSE [x |-> s.x, y |-> y1, err |-> e1]

\* CircleStart with the loop begun one row off the axis
CircleStart_SkipAxis(r) == [x |-> r, y |-> 1, err |-> 0]

\* let mut x = radius; let mut y = 0i32; let mut err = 0i32;
CircleStart(r) == [x |-> r, y |-> 0, err |-> 0]

\* while x > y
CircleContinue_Strict(s) == s.x > s.y

\* while x >= y
CircleContinue(s) == s.x >= s.y

\* The locals of draw_ellipse before its first loop
EllipseStart(w, h) ==
    LET w2 == w * w
        h2 == h * h
    IN  [x |-> 0, y |-> h, px |-> 0, py |-> 2 * w2 * h,
         p4 |-> 4 * (h2 - w2 * h) + w2]

\* One iteration of the loop "while px < py"
Region1Next(s, w, h) ==
    LET w2 == w * w
        h2 == h * h
        px1 == s.px + 2 * h2
    IN  IF s.p4 < 0
        THEN [s EXCEPT !.x = s.x + 1, !.px = px1, !.p4 = s.p4 + 4 * (h2 + px1)]
        ELSE [x |-> s.x + 1, y |-> s.y - 1, px |-> px1, py |-> s.py - 2 * w2,
              p4 |-> s.p4 + 4 * (h2 + px1 - (s.py - 2 * w2))]

\* p = h2 * (x + 0.5)^2 + w2 * (y - 1)^2 - w2 * h2
Region2Start(s, w, h) ==
    LET w2 == w * w
        h2 == h * h
    IN  [s EXCEPT !.p4 = h2 * (2 * s.x + 1) * (2 * s.x + 1)
                         + 4 * (w2 * (s.y - 1) * (s.y - 1)) - 4 * (w2 * h2)]

\* One iteration of the loop "while y > 0"
Region2Next(s, w, h) ==
    LET w2 == w * w
        h2 == h * h
        py1 == s.py - 2 * w2
    IN  IF s.p4 > 0
        THEN [s EXCEPT !.y = s.y - 1, !.py = py1, !.p4 = s.p4 + 4 * (w2 - py1)]
        ELSE [x |-> s.x + 1, y |-> s.y - 1, px |-> s.px + 2 * h2, py |-> py1,
              p4 |-> s.p4 + 4 * (w2 - py1 + (s.px + 2 * h2))]

----------------------------------------------------------------------------
(* The call *)

Wrappers == {"draw_hollow_ellipse", "draw_filled_ellipse",
             "draw_hollow_circle", "draw_filled_circle"}
Mutating == {"draw_hollow_ellipse_mut", "draw_filled_ellipse_mut",
             "draw_hollow_circle_mut", "draw_filled_circle_mut"}
Ops == Wrappers \cup Mutating

EllipseOps == {"draw_hollow_ellipse", "draw_filled_ellipse",
               "draw_hollow_ellipse_mut", "draw_filled_ellipse_mut"}
HollowOps == {"draw_hollow_ellipse", "draw_hollow_ellipse_mut",
              "draw_hollow_circle", "draw_hollow_circle_mut"}

\* The mutating routine an entry point runs
Routine(o) ==
    IF o \in {"draw_hollow_ellipse", "draw_hollow_ellipse_mut"}
        THEN "draw_hollow_ellipse_mut"
    ELSE IF o \in {"draw_filled_ellipse", "draw_filled_ellipse_mut"}
        THEN "draw_filled_ellipse_mut"
    ELSE IF o \in {"draw_hollow_circle", "draw_hollow_circle_mut"}
        THEN "draw_hollow_circle_mut"
    ELSE "draw_filled_circle_mut"

\* Luma([50u8]), the colour the benchmarks draw with
Luma50 == 50

\* The caller's canvas: a fixed pattern of pixel values other than the colour drawn
CallerImage(w, h) ==
    [width |-> w, height |-> h,
     pix |-> [q \in Pixels(w, h) |-> (q[1] + 2 * q[2]) % 3]]

CanvasSizes == {<<0, 0>>, <<0, 2>>, <<3, 2>>, <<Big, Big>>}
CenterCoords == {I32Min, -1, 1, Mid, I32Max}
Radii == 0..MaxRadius

NoImage == [width |-> 0, height |-> 0, pix |-> <<>>]

Init ==
    /\ op \in Ops
    /\ build \in {"debug", "release"}
    /\ \E d \in CanvasSizes : image = CallerImage(d[1], d[2])
    /\ out = NoImage
    /\ center \in CenterCoords \X CenterCoords
    /\ width_radius \in Radii
    /\ height_radius \in Radii
    /\ op \notin EllipseOps => height_radius = width_radius
    /\ color = Luma50
    /\ pc = IF op \in Wrappers THEN "call" ELSE Routine(op)
    /\ x = 0 /\ y = 0 /\ err = 0 /\ px = 0 /\ py = 0 /\ p4 = 0
    /\ overflowed = FALSE
    /\ trail = <<>>

\* The canvas the mutating routine draws on
Target == IF op \in Wrappers THEN out ELSE image

Ctx == [img |-> Target, ovf |-> FALSE, panic |-> FALSE]

\* The effect of a render on the canvases, the overflow flag and the position
Rendered(dc, next) ==
    /\ image' = IF op \in Wrappers THEN image ELSE dc.img
    /\ out' = IF op \in Wrappers THEN dc.img ELSE out
    /\ overflowed' = (overflowed \/ dc.ovf)
    /\ pc' = IF dc.panic THEN "panicked" ELSE next

Inputs == <<op, build, center, width_radius, height_radius, color>>

\* The wrapper without its copy_from
WrapperCopy_NoCopy(img) == NewImage(img.width, img.height)

\* let mut out = ImageBuffer::new(image.width(), image.height());
\* out.copy_from(image, 0, 0);
WrapperCopy(img) == CopyFrom(NewImage(img.width, img.height), img)

draw_hollow_ellipse ==
    /\ pc = "call" /\ op = "draw_hollow_ellipse"
    /\ out' = WrapperCopy(image)
    /\ pc' = "draw_hollow_ellipse_mut"
    /\ UNCHANGED <<Inputs, image, x, y, err, px, py, p4, overflowed, trail>>

draw_filled_ellipse ==
    /\ pc = "call" /\ op = "draw_filled_ellipse"
    /\ out' = WrapperCopy(image)
    /\ pc' = "draw_filled_ellipse_mut"
    /\ UNCHANGED <<Inputs, image, x, y, err, px, py, p4, overflowed, trail>>

draw_hollow_circle ==
    /\ pc = "call" /\ op = "draw_hollow_circle"
    /\ out' = WrapperCopy(image)
    /\ pc' = "draw_hollow_circle_mut"
    /\ UNCHANGED <<Inputs, image, x, y, err, px, py, p4, overflowed, trail>>

draw_filled_circle ==
    /\ pc = "call" /\ op = "draw_filled_circle"
    /\ out' = WrapperCopy(image)
    /\ pc' = "draw_filled_circle_mut"
    /\ UNCHANGED <<Inputs, image, x, y, err, px, py, p4, overflowed, trail>>

\* The dispatch never taken
UseCircle_Never(w, h) == FALSE

\* if width_radius == height_radius { draw_hollow_circle_mut(..); return; }
UseCircle(w, h) == w = h

draw_hollow_ellipse_mut ==
    /\ pc = "draw_hollow_ellipse_mut"
    /\ pc' = IF UseCircle(width_radius, height_radius)
             THEN "draw_hollow_circle_mut" ELSE "draw_ellipse"
    /\ UNCHANGED <<Inputs, image, out, x, y, err, px, py, p4, overflowed, trail>>

draw_filled_ellipse_mut ==
    /\ pc = "draw_filled_ellipse_mut"
    /\ pc' = IF UseCircle(width_radius, height_radius)
             THEN "draw_filled_circle_mut" ELSE "draw_ellipse"
    /\ UNCHANGED <<Inputs, image, out, x, y, err, px, py, p4, overflowed, trail>>

\* render_func of draw_ellipse: the closure the caller passed
RenderFunc(dc, ex, ey) ==
    IF Routine(op) = "draw_hollow_ellipse_mut"
    THEN draw_quad_pixels(dc, ex, ey) ELSE draw_line_pairs(dc, ex, ey)

SetEllipse(s) ==
    /\ x' = s.x /\ y' = s.y /\ px' = s.px /\ py' = s.py /\ p4' = s.p4

EllipseState == [x |-> x, y |-> y, px |-> px, py |-> py, p4 |-> p4]

\* draw_ellipse up to its first loop: the locals and the first render
draw_ellipse ==
    /\ pc = "draw_ellipse"
    /\ LET s == EllipseStart(width_radius, height_radius)
       IN  /\ SetEllipse(s)
           /\ Rendered(RenderFunc(Ctx, s.x, s.y), "region1")
           /\ trail' = Append(trail, <<s.x, s.y>>)
    /\ UNCHANGED <<Inputs, err>>

Region1Step ==
    /\ pc = "region1" /\ px < py
    /\ LET s == Region1Next(EllipseState, width_radius, height_radius)
       IN  /\ SetEllipse(s)
           /\ Rendered(RenderFunc(Ctx, s.x, s.y), "region1")
           /\ trail' = Append(trail, <<s.x, s.y>>)
    /\ UNCHANGED <<Inputs, err>>

Region1Exit ==
    /\ pc = "region1" /\ ~(px < py)
    /\ SetEllipse(Region2Start(EllipseState, width_radius, height_radius))
    /\ pc' = "region2"
    /\ UNCHANGED <<Inputs, image, out, err, overflowed, trail>>

Region2Step ==
    /\ pc = "region2" /\ y > 0
    /\ LET s == Region2Next(EllipseState, width_radius, height_radius)
       IN  /\ SetEllipse(s)
           /\ Rendered(RenderFunc(Ctx, s.x, s.y), "region2")
           /\ trail' = Append(trail, <<s.x, s.y>>)
    /\ UNCHANGED <<Inputs, err>>

Region2Exit ==
    /\ pc = "region2" /\ ~(y > 0)
    /\ pc' = "done"
    /\ UNCHANGED <<Inputs, image, out, x, y, err, px, py, p4, overflowed, trail>>

CircleState == [x |-> x, y |-> y, err |-> err]

SetCircle(s) == x' = s.x /\ y' = s.y /\ err' = s.err

\* let mut x = radius; let mut y = 0i32; let mut err = 0i32;
draw_hollow_circle_mut ==
    /\ pc = "draw_hollow_circle_mut"
    /\ SetCircle(CircleStart(width_radius))
    /\ pc' = "hollow_circle_loop"
    /\ UNCHANGED <<Inputs, image, out, px, py, p4, overflowed, trail>>

HollowCircleIter ==
    /\ pc = "hollow_circle_loop" /\ CircleContinue(CircleState)
    /\ Rendered(HollowCircleBody(Ctx, x, y), "hollow_circle_loop")
    /\ SetCircle(CircleNext(CircleState))
    /\ trail' = Append(trail, <<x, y>>)
    /\ UNCHANGED <<Inputs, px, py, p4>>

HollowCircleExit ==
    /\ pc = "hollow_circle_loop" /\ ~CircleContinue(CircleState)
    /\ pc' = "done"
    /\ UNCHANGED <<Inputs, image, out, x, y, err, px, py, p4, overflowed, trail>>

draw_filled_circle_mut ==
    /\ pc = "draw_filled_circle_mut"
    /\ SetCircle(CircleStart(width_radius))
    /\ pc' = "filled_circle_loop"
    /\ UNCHANGED <<Inputs, image, out, px, py, p4, overflowed, trail>>

FilledCircleIter ==
    /\ pc = "filled_circle_loop" /\ CircleContinue(CircleState)
    /\ Rendered(FilledCircleBody(Ctx, x, y), "filled_circle_loop")
    /\ SetCircle(CircleNext(CircleState))
    /\ trail' = Append(trail, <<x, y>>)
    /\ UNCHANGED <<Inputs, px, py, p4>>

FilledCircleExit ==
    /\ pc = "filled_circle_loop" /\ ~CircleContinue(CircleState)
    /\ pc' = "done"
    /\ UNCHANGED <<Inputs, image, out, x, y, err, px, py, p4, overflowed, trail>>

Next ==
    \/ draw_hollow_ellipse \/ draw_filled_ellipse
    \/ draw_hollow_circle \/ draw_filled_circle
    \/ draw_hollow_ellipse_mut \/ draw_filled_ellipse_mut
    \/ draw_ellipse \/ Region1Step \/ Region1Exit \/ Region2Step \/ Region2Exit
    \/ draw_hollow_circle_mut \/ HollowCircleIter \/ HollowCircleExit
    \/ draw_filled_circle_mut \/ FilledCircleIter \/ FilledCircleExit

Spec == Init /\ [][Next]_vars

----------------------------------------------------------------------------
(* Whole runs of the routines, as functions of the canvas they start on *)

\* draw_hollow_circle_mut (filled = FALSE) and draw_filled_circle_mut (TRUE)
RECURSIVE CircleRun(_, _, _)
CircleRun(dc, s, filled) ==
    IF dc.panic \/ ~CircleContinue(s) THEN dc
    ELSE CircleRun(IF filled THEN FilledCircleBody(dc, s.x, s.y)
                             ELSE HollowCircleBody(dc, s.x, s.y),
                   CircleNext(s), filled)

\* The loop "while px < py" of draw_ellipse, r being [dc, s]
RECURSIVE Region1Run(_)
Region1Run(r) ==
    IF r.dc.panic \/ ~(r.s.px < r.s.py) THEN r
    ELSE LET n == Region1Next(r.s, width_radius, height_radius)
         IN  Region1Run([dc |-> RenderFunc(r.dc, n.x, n.y), s |-> n])

\* The loop "while y > 0" of draw_ellipse
RECURSIVE Region2Run(_)
Region2Run(r) ==
    IF r.dc.panic \/ ~(r.s.y > 0) THEN r
    ELSE LET n == Region2Next(r.s, width_radius, height_radius)
         IN  Region2Run([dc |-> RenderFunc(r.dc, n.x, n.y), s |-> n])

EllipseRun(dc) ==
    LET s0 == EllipseStart(width_radius, height_radius)
        r1 == Region1Run([dc |-> RenderFunc(dc, s0.x, s0.y), s |-> s0])
    IN  IF r1.dc.panic THEN r1.dc
        ELSE Region2Run([dc |-> r1.dc,
                         s |-> Region2Start(r1.s, width_radius, height_radius)]).dc

\* The canvas the circle routine leaves when started on img
CircleResult(img, filled) ==
    CircleRun([img |-> img, ovf |-> FALSE, panic |-> FALSE],
              CircleStart(width_radius), filled).img

\* The canvas the mutating routine of the entry point leaves when started on img
MutResult(img) ==
    LET dc == [img |-> img, ovf |-> FALSE, panic |-> FALSE]
        rt == Routine(op)
    IN  IF rt = "draw_hollow_circle_mut" THEN CircleResult(img, FALSE)
        ELSE IF rt = "draw_filled_circle_mut" THEN CircleResult(img, TRUE)
        ELSE IF UseCircle(width_radius, height_radius)
            THEN CircleResult(img, rt = "draw_filled_ellipse_mut")
        ELSE EllipseRun(dc).img

----------------------------------------------------------------------------
(* The points the steppers render, as offsets from the center, in exact     *)
(* integers: the shape on an unbounded canvas                               *)

RECURSIVE CirclePts(_)
CirclePts(s) ==
    IF ~CircleContinue(s) THEN {}
    ELSE {<<s.x, s.y>>} \cup CirclePts(CircleNext(s))

RECURSIVE Region1Pts(_, _, _)
Region1Pts(s, w, h) ==
    IF ~(s.px < s.py) THEN [s |-> s, pts |-> {}]
    ELSE LET n == Region1Next(s, w, h)
             r == Region1Pts(n, w, h)
         IN  [s |-> r.s, pts |-> {<<n.x, n.y>>} \cup r.pts]

RECURSIVE Region2Pts(_, _, _)
Region2Pts(s, w, h) ==
    IF ~(s.y > 0) THEN {}
    ELSE LET n == Region2Next(s, w, h)
         IN  {<<n.x, n.y>>} \cup Region2Pts(n, w, h)

EllipsePts(w, h) ==
    LET s0 == EllipseStart(w, h)
        r1 == Region1Pts(s0, w, h)
    IN  {<<s0.x, s0.y>>} \cup r1.pts \cup Region2Pts(Region2Start(r1.s, w, h), w, h)

\* (x0 +- x, y0 +- y)
Reflect4(pts) ==
    UNION {{<<q[1], q[2]>>, <<-q[1], q[2]>>, <<q[1], -q[2]>>, <<-q[1], -q[2]>>} :
           q \in pts}

\* (x0 +- x, y0 +- y) and (x0 +- y, y0 +- x)
Reflect8(pts) == Reflect4(pts) \cup Reflect4({<<q[2], q[1]>> : q \in pts})

\* The offsets of the outline draw_hollow_ellipse_mut(w, h) plots
HollowOffsets(w, h) ==
    IF UseCircle(w, h) THEN Reflect8(CirclePts(CircleStart(w)))
    ELSE Reflect4(EllipsePts(w, h))

----------------------------------------------------------------------------
(* Properties *)

\* The caller's canvas as it was when the call began
Orig == CallerImage(image.width, image.height)

\* The pixels of img that differ from the caller's canvas, or lie outside it
Changed(img) ==
    {q \in DOMAIN img.pix : q \notin DOMAIN Orig.pix \/ img.pix[q] # Orig.pix[q]}

Finished == pc \in {"done", "panicked"}

\* base + d = v in the integers
At(base, d, v) == ~AddOverflows(base, d) /\ base + d = v

\* The outline on an unbounded canvas, cut to the canvas
ShapePixels ==
    LET offs == HollowOffsets(width_radius, height_radius)
    IN  {q \in DOMAIN Orig.pix :
            \E o \in offs : At(center[1], o[1], q[1]) /\ At(center[2], o[2], q[2])}

\* The canvas holds the whole bounding box of the shape
HoldsShape ==
    /\ center[1] >= width_radius /\ center[1] < image.width - width_radius
    /\ center[2] >= height_radius /\ center[2] < image.height - height_radius

\* C1: the hollow routines never write outside the canvas, and the pixels they
\* change are exactly the points of the unbounded outline that lie on the canvas
\* (none when the outline lies outside it).
C1_Clipping ==
    /\ DOMAIN Target.pix = Pixels(Target.width, Target.height)
    /\ op \in HollowOps => Changed(Target) \subseteq ShapePixels
    /\ (op \in HollowOps /\ Finished) => Changed(Target) = ShapePixels

C1_Witness ==
    /\ pc = "done" /\ op = "draw_hollow_ellipse_mut"
    /\ width_radius # height_radius
    /\ Changed(Target) # {}
    /\ Cardinality(Changed(Target))
         < Cardinality(HollowOffsets(width_radius, height_radius))

\* C2: an ellipse routine called with equal radii leaves the canvas the circle
\* routine leaves for that radius, and never enters draw_ellipse.
C2_CircleEllipseEquivalence ==
    (op \in EllipseOps /\ width_radius = height_radius) =>
        /\ pc \notin {"draw_ellipse", "region1", "region2"}
        /\ Finished =>
             Target = CircleResult(IF op \in Wrappers THEN image ELSE Orig,
                                   Routine(op) = "draw_filled_ellipse_mut")

C2_Witness ==
    /\ pc = "done" /\ op = "draw_filled_ellipse"
    /\ width_radius = height_radius /\ width_radius >= 2
    /\ center = <<1, 1>> /\ Changed(out) # {}

\* C3: no i32 operation of a draw call leaves the i32 range, and no call panics.
C3_NoOverflow == ~overflowed /\ pc # "panicked"

\* The columns and the rows of a set of pixels
Cols(ps) == {q[1] : q \in ps}
Rows(ps) == {q[2] : q \in ps}

\* C4: a hollow ellipse with unequal radii, drawn on a canvas that holds its
\* bounding box, has its topmost pixel at (x0, y0 - height_radius) and its
\* leftmost pixel in column x0 - width_radius: the drawn set spans exactly
\* [x0 - width_radius, x0 + width_radius] x [y0 - height_radius, y0 + height_radius].
C4_HollowEllipseExtremes ==
    ( /\ pc = "done" /\ Routine(op) = "draw_hollow_ellipse_mut"
      /\ width_radius # height_radius /\ HoldsShape ) =>
        LET ps == Changed(Target)
        IN  /\ <<center[1], center[2] - height_radius>> \in ps
            /\ \A q \in ps : /\ q[1] >= center[1] - width_radius
                             /\ q[1] <= center[1] + width_radius
                             /\ q[2] >= center[2] - height_radius
                             /\ q[2] <= center[2] + height_radius
            /\ center[1] - width_radius \in Cols(ps)
            /\ center[1] + width_radius \in Cols(ps)
            /\ center[2] - height_radius \in Rows(ps)
            /\ center[2] + height_radius \in Rows(ps)

\* C5: a hollow circle of radius 0 (or a hollow ellipse of radii 0 and 0)
\* changes exactly the center pixel when it is on the canvas and no pixel
\* otherwise, and the circle loop body runs exactly once.
C5_DegenerateRadius ==
    (pc = "done" /\ op \in HollowOps /\ width_radius = 0 /\ height_radius = 0) =>
        /\ Changed(Target) = IF InBounds(Target, center[1], center[2])
                             THEN {center} ELSE {}
        /\ Len(trail) = 1

C5_Witness ==
    /\ pc = "done" /\ op = "draw_hollow_circle_mut" /\ width_radius = 0
    /\ Changed(image) = {center}

\* C6: on a canvas that holds the whole shape, the pixels a hollow routine
\* writes are closed under the reflections in the lines x = x0 and y = y0.
C6_Symmetry ==
    (pc = "done" /\ op \in HollowOps /\ HoldsShape) =>
        LET ps == Changed(Target)
        IN  \A q \in ps : /\ <<2 * center[1] - q[1], q[2]>> \in ps
                          /\ <<q[1], 2 * center[2] - q[2]>> \in ps

C6_Witness ==
    /\ pc = "done" /\ op = "draw_hollow_ellipse_mut" /\ HoldsShape
    /\ width_radius = 1 /\ height_radius = 3
    /\ Cardinality(Changed(image)) >= 8

\* dx^2 * h^2 + dy^2 * w^2 <= w^2 * h^2
Inside(dx, dy, w, h) == dx * dx * h * h + dy * dy * w * w <= w * w * h * h

\* One step from d towards 0
Towards0(d) == IF d > 0 THEN d - 1 ELSE IF d < 0 THEN d + 1 ELSE 0

\* The pixel q lies within the radii of the center, and it or its neighbour
\* one pixel closer to the center along x or along y satisfies the inequality
Contained(q, w, h) ==
    /\ center[1] >= q[1] - w /\ center[1] <= q[1] + w
    /\ center[2] >= q[2] - h /\ center[2] <= q[2] + h
    /\ LET dx == q[1] - center[1]
           dy == q[2] - center[2]
       IN  \/ Inside(dx, dy, w, h)
           \/ Inside(Towards0(dx), dy, w, h)
           \/ Inside(dx, Towards0(dy), w, h)

\* C7: every pixel a filled routine sets lies within the radii of the center
\* and on or inside the boundary inequality, up to one pixel of rounding.
C7_Containment ==
    op \notin HollowOps =>
        \A q \in Changed(Target) : Contained(q, width_radius, height_radius)

\* The center, the bottom-edge pixel and the pixel below it lie on the canvas
HoldsColumn ==
    /\ center[1] >= 0 /\ center[1] < image.width
    /\ center[2] >= width_radius + 1
    /\ center[2] < image.height - width_radius - 1

\* C8: a filled circle of radius r, on a canvas holding rows y0 - r - 1 to
\* y0 + r + 1 of column x0, sets (x0, y0) and (x0, y0 + r) and leaves
\* (x0, y0 + r + 1) alone.
C8_FilledCircleExtent ==
    (pc = "done" /\ Routine(op) = "draw_filled_circle_mut" /\ HoldsColumn) =>
        /\ Target.pix[center] = color
        /\ Target.pix[<<center[1], center[2] + width_radius>>] = color
        /\ <<center[1], center[2] + width_radius + 1>> \notin Changed(Target)

C8_Witness ==
    /\ pc = "done" /\ op = "draw_filled_circle_mut" /\ HoldsColumn
    /\ width_radius = MaxRadius /\ center = <<Mid, Mid>>
    /\ image.pix[<<Mid, Mid + MaxRadius>>] = color

\* C9: a non-mutating entry point leaves the caller's canvas as it was and
\* returns a canvas of the same dimensions, equal to what its mutating routine
\* leaves when run on the caller's canvas; where the two canvases differ the
\* returned one holds the colour drawn.
C9_NonMutation ==
    /\ image.width = Orig.width /\ image.height = Orig.height
    /\ op \in Wrappers =>
        /\ image = Orig
        /\ pc = "done" =>
            /\ out.width = image.width /\ out.height = image.height
            /\ DOMAIN out.pix = DOMAIN image.pix
            /\ out = MutResult(image)
            /\ \A q \in DOMAIN out.pix :
                   out.pix[q] # image.pix[q] => out.pix[q] = color

C9_Witness ==
    /\ pc = "done" /\ op = "draw_hollow_ellipse"
    /\ width_radius # height_radius
    /\ \E q \in DOMAIN out.pix : out.pix[q] = color
    /\ \E q \in DOMAIN out.pix : out.pix[q] # color /\ out.pix[q] # 0

\* The 8 neighbours of a pixel, and the pixel
Near(q) == {<<q[1] + i, q[2] + j>> : i \in {-1, 0, 1}, j \in {-1, 0, 1}}

\* The pixels of ps that a path of neighbouring pixels of ps joins to seen
RECURSIVE Reach(_, _)
Reach(seen, ps) ==
    LET more == {q \in ps \ seen : Near(q) \cap seen # {}}
    IN  IF more = {} THEN seen ELSE Reach(seen \cup more, ps)

Connected(ps) == ps = {} \/ LET q0 == CHOOSE q \in ps : TRUE IN Reach({q0}, ps) = ps

\* The call runs the loop of draw_hollow_circle_mut
InHollowCircle ==
    /\ op \in HollowOps /\ UseCircle(width_radius, height_radius)
    /\ pc \in {"hollow_circle_loop", "done", "panicked"}

\* C10: every iteration of draw_hollow_circle_mut plots with x >= y >= 0, y
\* grows by exactly 1 and x shrinks by at most 1 per iteration, the last
\* iteration has x - y in {0, 1}, and the plotted points with their 8
\* reflections form one 8-connected outline.
C10_ConnectedOutline ==
    InHollowCircle =>
        /\ \A i \in 1..Len(trail) : trail[i][1] >= trail[i][2] /\ trail[i][2] >= 0
        /\ \A i \in 1..(Len(trail) - 1) :
               /\ trail[i + 1][2] = trail[i][2] + 1
               /\ trail[i][1] - trail[i + 1][1] \in {0, 1}
        /\ Len(trail) > 0 =>
               /\ y = trail[Len(trail)][2] + 1
               /\ trail[Len(trail)][1] - x \in {0, 1}
        /\ pc = "done" =>
               /\ Len(trail) > 0
               /\ trail[Len(trail)][1] - trail[Len(trail)][2] \in {0, 1}
               /\ Connected(Reflect8({trail[i] : i \in 1..Len(trail)}))

C10_Witness ==
    /\ pc = "done" /\ op = "draw_hollow_circle_mut"
    /\ width_radius = MaxRadius /\ Len(trail) >= 3

====
